---------------------------- MODULE Spec2Model ----------------------------
(***************************************************************************)
(* A model of the go-cloudinary client.                                    *)
(*                                                                         *)
(* src/service.go        the newer client: Dial, UploadDestroy, newRequest,*)
(*                       do, decode.                                       *)
(* src/unnamed/part_000  the older client: Dial, KeepFiles, Simulate,      *)
(*                       cleanAssetName, walkIt, uploadFile, Upload,       *)
(*                       handleHTTPResponse, Delete, Rename; and the tests.*)
(*                                                                         *)
(* A Go string is a sequence of bytes; a byte is written as a one-letter   *)
(* TLA+ string ("a", "/", ...), or, for a byte that is not printable       *)
(* ASCII, by its name ("xa2" is the byte 0xA2).                            *)
(***************************************************************************)
EXTENDS Integers, Sequences, FiniteSets, TLC

VARIABLES
    input,      \* the arguments of the function under check (pure-function specifications)
    output,     \* its result; None before the call
    svc,        \* the Service that Dial returned, with the fields its methods write
    world,      \* the file system and the working directory of the process
    pc,         \* "idle", or "walk" while the Upload of a directory is under way
    agenda,     \* the paths that filepath.Walk still has to visit, in order
    call,       \* the call under way or last made: its name, its arguments, the Service at its start
    ufLog,      \* the calls of uploadFile that this call has made, with their results
    ret         \* what the last call returned; None while a call is under way

machine == <<svc, world, pc, agenda, call, ufLog, ret>>

vars == <<input, output, machine>>

None == [none |-> TRUE]

\* The state of the client in the specifications of a single function.
MachineUnused ==
    /\ svc = None
    /\ world = None
    /\ pc = "idle"
    /\ agenda = <<>>
    /\ call = None
    /\ ufLog = <<>>
    /\ ret = None

---------------------------------------------------------------------------
(* Package strings.                                                        *)

RECURSIVE IndexFrom(_, _, _)
\* The least i >= from with s[i..] starting with sub; 0 when there is none.
IndexFrom(s, sub, from) ==
    IF from + Len(sub) - 1 > Len(s) THEN 0
    ELSE IF SubSeq(s, from, from + Len(sub) - 1) = sub THEN from
    ELSE IndexFrom(s, sub, from + 1)

\* strings.Index, 1-based; 0 stands for Go's -1.
Index(s, sub) == IndexFrom(s, sub, 1)

RECURSIVE LastIndexFrom(_, _, _)
LastIndexFrom(s, sub, from) ==
    IF from < 1 THEN 0
    ELSE IF SubSeq(s, from, from + Len(sub) - 1) = sub THEN from
    ELSE LastIndexFrom(s, sub, from - 1)

\* strings.LastIndex, 1-based; 0 stands for Go's -1.
LastIndex(s, sub) == LastIndexFrom(s, sub, Len(s) - Len(sub) + 1)

Contains(s, sub) == Index(s, sub) # 0

HasPrefix(s, p) == Len(s) >= Len(p) /\ SubSeq(s, 1, Len(p)) = p

HasSuffix(s, p) == Len(s) >= Len(p) /\ SubSeq(s, Len(s) - Len(p) + 1, Len(s)) = p

\* s[i:] of Go with i 0-based is Drop(s, i).
Drop(s, n) == SubSeq(s, n + 1, Len(s))

Take(s, n) == SubSeq(s, 1, n)

\* the text before and after the sep found at i; found is FALSE for i = 0
CutAt(s, sep, i) ==
    IF i = 0 THEN [before |-> s, after |-> <<>>, found |-> FALSE]
    ELSE [before |-> Take(s, i - 1), after |-> Drop(s, i + Len(sep) - 1), found |-> TRUE]

\* strings.Cut: the text before and after the first sep, and whether sep was found.
Cut(s, sep) == CutAt(s, sep, Index(s, sep))

\* strings.Count of a non-empty sep.
Count(s, sep) == Cardinality({i \in 1..Len(s) : SubSeq(s, i, i + Len(sep) - 1) = sep})

\* s with the old found at i replaced by new; s itself for i = 0
ReplaceAt(s, old, new, i) ==
    IF i = 0 THEN s
    ELSE Take(s, i - 1) \o new \o Drop(s, i + Len(old) - 1)

\* strings.Replace(s, old, new, 1). With old empty, new is put in front.
Replace1(s, old, new) == ReplaceAt(s, old, new, Index(s, old))

RECURSIVE ReplaceAll(_, _, _)
\* strings.Replace(s, old, new, -1) for a one-byte old.
ReplaceAll(s, old, new) ==
    IF s = <<>> THEN <<>>
    ELSE (IF <<Head(s)>> = old THEN new ELSE <<Head(s)>>) \o ReplaceAll(Tail(s), old, new)

\* unicode.IsSpace over the bytes of the model.
IsSpace(c) == c \in {" ", "\t", "\n"}

RECURSIVE TrimLeft(_)
TrimLeft(s) == IF s # <<>> /\ IsSpace(Head(s)) THEN TrimLeft(Tail(s)) ELSE s

RECURSIVE TrimRight(_)
TrimRight(s) ==
    IF s # <<>> /\ IsSpace(s[Len(s)]) THEN TrimRight(Take(s, Len(s) - 1)) ELSE s

\* strings.TrimSpace
TrimSpace(s) == TrimRight(TrimLeft(s))

\* strings.TrimPrefix
TrimPrefix(s, p) == IF HasPrefix(s, p) THEN Drop(s, Len(p)) ELSE s

LowerLetters ==
    {"a", "b", "c", "d", "e", "f", "g", "h", "i", "j", "k", "l", "m",
     "n", "o", "p", "q", "r", "s", "t", "u", "v", "w", "x", "y", "z"}

UpperLetters == {"C", "K", "Z"}

Digits == {"0", "1", "2", "3", "4", "5", "6", "7", "8", "9"}

ToLowerByte(c) ==
    CASE c = "C" -> "c"
      [] c = "K" -> "k"
      [] c = "Z" -> "z"
      [] OTHER -> c

\* strings.ToLower
ToLower(s) == [i \in 1..Len(s) |-> ToLowerByte(s[i])]

---------------------------------------------------------------------------
(* Package net/url, as far as Dial uses it: url.Parse of a URL without     *)
(* control bytes and without a bracketed (IPv6) host.                      *)

IsLetter(c) == c \in LowerLetters \cup UpperLetters

IsHex(c) == c \in Digits \cup {"a", "b", "c", "d", "e", "f", "C"}

\* unhex(c) < 8: the high digit of an ASCII byte
LowHex(c) == c \in {"0", "1", "2", "3", "4", "5", "6", "7"}

\* The byte that the escape %hl stands for.
DecodeByte(h, l) ==
    CASE <<h, l>> = <<"0", "0">> -> "x00"
      [] <<h, l>> = <<"0", "2">> -> "x02"
      [] <<h, l>> = <<"0", "5">> -> "x05"
      [] <<h, l>> = <<"0", "a">> -> "\n"
      [] <<h, l>> = <<"2", "0">> -> " "
      [] <<h, l>> = <<"2", "2">> -> "\""
      [] <<h, l>> = <<"2", "5">> -> "%"
      [] <<h, l>> = <<"2", "a">> -> "*"
      [] <<h, l>> = <<"5", "0">> -> "P"
      [] <<h, l>> = <<"5", "2">> -> "R"
      [] <<h, l>> = <<"5", "5">> -> "U"
      [] <<h, l>> = <<"5", "a">> -> "Z"
      [] <<h, l>> = <<"a", "0">> -> "xa0"
      [] <<h, l>> = <<"a", "2">> -> "xa2"
      [] <<h, l>> = <<"a", "5">> -> "xa5"
      [] <<h, l>> = <<"a", "a">> -> "xaa"
      [] OTHER -> "x??"

\* A byte below 0x80
IsASCII(c) == c \notin {"xa0", "xa2", "xa5", "xaa", "x??"}

\* shouldEscape(c, encodeHost): what a host may not hold unescaped
ShouldEscapeHost(c) ==
    ~ (\/ IsLetter(c) \/ c \in Digits
       \/ c \in {"-", "_", ".", "~"}
       \/ c \in {"!", "$", "&", "'", "(", ")", "*", "+", ",", ";", "=", ":", "[", "]", "<", ">", "\""})

RECURSIVE UnescapeFrom(_, _, _, _)
\* unescape(s, mode) read from byte i on, with out decoded so far: [err, s].
\* mode is "host" or "other" (userinfo, path and fragment differ only in the
\* handling of '+', which none of them decodes).
UnescapeFrom(s, i, mode, out) ==
    IF i > Len(s) THEN [err |-> FALSE, s |-> out]
    ELSE IF s[i] = "%"
    THEN IF i + 2 > Len(s) \/ ~IsHex(s[i + 1]) \/ ~IsHex(s[i + 2])
         THEN [err |-> TRUE, s |-> <<>>]
         ELSE IF mode = "host" /\ LowHex(s[i + 1]) /\ SubSeq(s, i, i + 2) # <<"%", "2", "5">>
         THEN [err |-> TRUE, s |-> <<>>]
         ELSE UnescapeFrom(s, i + 3, mode, Append(out, DecodeByte(s[i + 1], s[i + 2])))
    ELSE IF mode = "host" /\ IsASCII(s[i]) /\ ShouldEscapeHost(s[i])
    THEN [err |-> TRUE, s |-> <<>>]
    ELSE UnescapeFrom(s, i + 1, mode, Append(out, s[i]))

unescape(s, mode) == UnescapeFrom(s, 1, mode, <<>>)

RECURSIVE GetSchemeFrom(_, _)
\* getScheme: [err, scheme, rest]
GetSchemeFrom(rawURL, i) ==
    IF i > Len(rawURL) THEN [err |-> FALSE, scheme |-> <<>>, rest |-> rawURL]
    ELSE LET c == rawURL[i]
         IN IF IsLetter(c) THEN GetSchemeFrom(rawURL, i + 1)
            ELSE IF c \in Digits \cup {"+", "-", "."}
            THEN IF i = 1 THEN [err |-> FALSE, scheme |-> <<>>, rest |-> rawURL]
                 ELSE GetSchemeFrom(rawURL, i + 1)
            ELSE IF c = ":"
            THEN IF i = 1 THEN [err |-> TRUE, scheme |-> <<>>, rest |-> <<>>]
                 ELSE [err |-> FALSE, scheme |-> Take(rawURL, i - 1), rest |-> Drop(rawURL, i)]
            ELSE [err |-> FALSE, scheme |-> <<>>, rest |-> rawURL]

getScheme(rawURL) == GetSchemeFrom(rawURL, 1)

\* validOptionalPort
validOptionalPort(port) ==
    \/ port = <<>>
    \/ /\ port[1] = ":"
       /\ \A i \in 2..Len(port) : port[i] \in Digits

\* parseHost with i the index of the last colon of the host
parseHostAt(host, i) ==
    IF i # 0 /\ ~validOptionalPort(Drop(host, i - 1))
    THEN [err |-> TRUE, s |-> <<>>]
    ELSE unescape(host, "host")

\* parseHost for a host that does not start with '[': [err, s]
parseHost(host) == parseHostAt(host, LastIndex(host, <<":">>))

\* validUserinfo
validUserinfo(s) ==
    \A i \in 1..Len(s) :
        \/ IsLetter(s[i]) \/ s[i] \in Digits
        \/ s[i] \in {"-", ".", "_", ":", "~", "!", "$", "&", "'", "(", ")", "*", "+", ",", ";", "=", "%", "@"}

NoUser == [set |-> FALSE, username |-> <<>>, password |-> <<>>, passwordSet |-> FALSE]

URLError == [err |-> TRUE]

\* url.User(u) or url.UserPassword(u, p) of the unescaped texts u and p
UserOf(u, p, passwordSet) ==
    IF u.err \/ p.err THEN URLError
    ELSE [err |-> FALSE,
          user |-> [set |-> TRUE, username |-> u.s, password |-> p.s, passwordSet |-> passwordSet]]

\* the userinfo of an authority: [err, user]
parseUserinfo(userinfo, c) ==
    IF ~validUserinfo(userinfo) THEN URLError
    ELSE IF ~c.found THEN UserOf(unescape(userinfo, "other"), [err |-> FALSE, s |-> <<>>], FALSE)
    ELSE UserOf(unescape(c.before, "other"), unescape(c.after, "other"), TRUE)

\* the host h and the user u of an authority
AuthorityOf(h, u) ==
    IF h.err \/ u.err THEN URLError
    ELSE [err |-> FALSE, user |-> u.user, host |-> h.s]

\* parseAuthority with i the index of the last '@'
parseAuthorityAt(authority, i) ==
    IF i = 0 THEN AuthorityOf(parseHost(authority), [err |-> FALSE, user |-> NoUser])
    ELSE AuthorityOf(parseHost(Drop(authority, i)),
                     parseUserinfo(Take(authority, i - 1), Cut(Take(authority, i - 1), <<":">>)))

\* parseAuthority: [err, user, host]; user.set is FALSE for a nil *Userinfo
parseAuthority(authority) == parseAuthorityAt(authority, LastIndex(authority, <<"@">>))

\* shouldEscape(c, encodePath)
ShouldEscapePath(c) ==
    ~ (\/ IsLetter(c) \/ c \in Digits
       \/ c \in {"-", "_", ".", "~"}
       \/ c \in {"$", "&", "+", "/", ":", "=", "@"})

\* the escape %XX of a byte, in upper-case hexadecimal
EscapeByte(c) ==
    CASE c = " " -> <<"%", "2", "0">>
      [] c = "\"" -> <<"%", "2", "2">>
      [] c = "#" -> <<"%", "2", "3">>
      [] c = "%" -> <<"%", "2", "5">>
      [] c = "(" -> <<"%", "2", "8">>
      [] c = ")" -> <<"%", "2", "9">>
      [] c = "*" -> <<"%", "2", "A">>
      [] c = "," -> <<"%", "2", "C">>
      [] c = ";" -> <<"%", "3", "B">>
      [] c = "<" -> <<"%", "3", "C">>
      [] c = ">" -> <<"%", "3", "E">>
      [] c = "?" -> <<"%", "3", "F">>
      [] c = "xa0" -> <<"%", "A", "0">>
      [] c = "xa2" -> <<"%", "A", "2">>
      [] c = "xa5" -> <<"%", "A", "5">>
      [] c = "xaa" -> <<"%", "A", "A">>
      [] OTHER -> <<"%", "?", "?">>

RECURSIVE escapePath(_)
\* escape(s, encodePath)
escapePath(s) ==
    IF s = <<>> THEN <<>>
    ELSE (IF ShouldEscapePath(Head(s)) THEN EscapeByte(Head(s)) ELSE <<Head(s)>>)
         \o escapePath(Tail(s))

RECURSIVE escapeHost(_)
\* escape(s, encodeHost)
escapeHost(s) ==
    IF s = <<>> THEN <<>>
    ELSE (IF ShouldEscapeHost(Head(s)) THEN EscapeByte(Head(s)) ELSE <<Head(s)>>)
         \o escapeHost(Tail(s))

\* validEncoded(s, encodePath)
validEncodedPath(s) ==
    \A i \in 1..Len(s) :
        \/ s[i] \in {"!", "$", "&", "'", "(", ")", "*", "+", ",", ";", "=", ":", "@", "[", "]", "%"}
        \/ ~ShouldEscapePath(s[i])

\* EscapedPath with p the unescaped RawPath
EscapedPathOf(u, p) ==
    IF u.RawPath # <<>> /\ validEncodedPath(u.RawPath) /\ ~p.err /\ p.s = u.Path
    THEN u.RawPath
    ELSE escapePath(u.Path)

\* (*URL).EscapedPath
EscapedPath(u) == EscapedPathOf(u, unescape(u.RawPath, "other"))

\* String with path the escaped path
URLStringOf(u, path) ==
    u.Scheme \o <<":", "/", "/">> \o escapeHost(u.Host)
    \o (IF path # <<>> /\ path[1] # "/" /\ u.Host # <<>> THEN <<"/">> ELSE <<>>)
    \o path

\* (*URL).String of a URL with a scheme and a host and without opaque part,
\* userinfo, query and fragment: the upload URL that Dial builds
URLString(u) == URLStringOf(u, EscapedPath(u))

\* the part of parse that cuts the query off: [before, after]
CutQuery(rest) ==
    IF HasSuffix(rest, <<"?">>) /\ Count(rest, <<"?">>) = 1
    THEN [before |-> Take(rest, Len(rest) - 1), after |-> <<>>]
    ELSE Cut(rest, <<"?">>)

\* (*URL).setPath and the end of parse: a is the authority, path the
\* unescaped pathText
setPath(scheme, rawQuery, a, pathText, path) ==
    IF a.err \/ path.err THEN URLError
    ELSE [err |-> FALSE, Scheme |-> scheme, Opaque |-> <<>>, User |-> a.user,
          Host |-> a.host, Path |-> path.s,
          RawPath |-> IF escapePath(path.s) = pathText THEN <<>> ELSE pathText,
          RawQuery |-> rawQuery]

\* the part of parse that splits authority and path: rest2 is the text after
\* the two slashes, slash the index of its first slash
parseAuthorityAndPath(scheme, rawQuery, rest2, slash) ==
    IF slash = 0
    THEN setPath(scheme, rawQuery, parseAuthority(rest2), <<>>, [err |-> FALSE, s |-> <<>>])
    ELSE setPath(scheme, rawQuery, parseAuthority(Take(rest2, slash - 1)),
                 Drop(rest2, slash - 1), unescape(Drop(rest2, slash - 1), "other"))

\* the part of parse after the scheme and the query are cut off
parseRest(scheme, rest, rawQuery) ==
    IF ~HasPrefix(rest, <<"/">>) /\ scheme # <<>>
    THEN [err |-> FALSE, Scheme |-> scheme, Opaque |-> rest, User |-> NoUser,
          Host |-> <<>>, Path |-> <<>>, RawPath |-> <<>>, RawQuery |-> rawQuery]
    ELSE IF ~HasPrefix(rest, <<"/">>) /\ Contains(Cut(rest, <<"/">>).before, <<":">>)
    THEN URLError
    ELSE IF (scheme # <<>> \/ ~HasPrefix(rest, <<"/", "/", "/">>)) /\ HasPrefix(rest, <<"/", "/">>)
    THEN parseAuthorityAndPath(scheme, rawQuery, Drop(rest, 2), Index(Drop(rest, 2), <<"/">>))
    ELSE setPath(scheme, rawQuery, [err |-> FALSE, user |-> NoUser, host |-> <<>>],
                 rest, unescape(rest, "other"))

\* the part of parse after getScheme
parseScheme(g, q) ==
    IF g.err THEN URLError ELSE parseRest(ToLower(g.scheme), q.before, q.after)

\* the part of parse after getScheme
parseAfter(g) == parseScheme(g, CutQuery(g.rest))

\* parse(rawURL, viaRequest = false): [err, Scheme, Opaque, User, Host, Path, RawPath, RawQuery]
parse(rawURL) == parseAfter(getScheme(rawURL))

\* the end of Parse: u is the parsed text before the fragment
ParseFragment(u, c) ==
    IF u.err THEN URLError
    ELSE IF c.after # <<>> /\ unescape(c.after, "other").err THEN URLError
    ELSE u

\* Parse with the fragment cut off
ParseCut(c) == ParseFragment(parse(c.before), c)

\* url.Parse: the fragment is cut off and unescaped, the rest is parsed.
Parse(rawURL) == ParseCut(Cut(rawURL, <<"#">>))

---------------------------------------------------------------------------
(* Dial.                                                                   *)

S_cloudinary == <<"c", "l", "o", "u", "d", "i", "n", "a", "r", "y">>

\* baseURL of service.go; baseUploadURL and baseAdminURL of the older client
baseUploadURL ==
    <<"h", "t", "t", "p", "s", ":", "/", "/", "a", "p", "i", ".", "c", "l", "o", "u", "d",
      "i", "n", "a", "r", "y", ".", "c", "o", "m", "/", "v", "1", "_", "1">>

baseAdminURL == baseUploadURL

S_imageUpload == <<"/", "i", "m", "a", "g", "e", "/", "u", "p", "l", "o", "a", "d", "/">>

DialError == [err |-> TRUE]

\* (*Userinfo).Password: "", false on a nil receiver
Password(user) ==
    IF ~user.set THEN [secret |-> <<>>, exists |-> FALSE]
    ELSE [secret |-> user.password, exists |-> user.passwordSet]

\* (*Userinfo).Username
Username(user) == IF ~user.set THEN <<>> ELSE user.username

\* Dial of service.go without the test of the scheme
DialServiceAnyScheme(conn) ==
    IF conn.err THEN DialError
    ELSE IF ~Password(conn.User).exists THEN DialError
    ELSE [err |-> FALSE,
          cloudName |-> conn.Host,
          apiKey |-> Username(conn.User),
          apiSecret |-> Password(conn.User).secret]

\* Dial of service.go after url.Parse
DialServiceOf(conn) ==
    IF conn.err THEN DialError
    ELSE IF conn.Scheme # S_cloudinary THEN DialError
    ELSE IF ~Password(conn.User).exists THEN DialError
    ELSE [err |-> FALSE,
          cloudName |-> conn.Host,
          apiKey |-> Username(conn.User),
          apiSecret |-> Password(conn.User).secret]

\* Dial of service.go: [err, cloudName, apiKey, apiSecret]
DialService(uri) == DialServiceOf(Parse(uri))

ImageType == "ImageType"
PdfType == "PdfType"
VideoType == "VideoType"
RawType == "RawType"
ResourceType == {ImageType, PdfType, VideoType, RawType}

NoPattern == [set |-> FALSE, anchored |-> FALSE, lit |-> <<>>]

\* Dial of the older client after the upload and the admin URL are parsed
DialURLs(s, up, adm) ==
    IF up.err THEN DialError
    ELSE IF adm.err THEN DialError
    ELSE [err |-> FALSE,
          cloudName |-> s.cloudName,
          apiKey |-> s.apiKey,
          apiSecret |-> s.apiSecret,
          uploadURI |-> up,
          adminURI |-> [adm EXCEPT !.User =
                           [set |-> TRUE, username |-> s.apiKey,
                            password |-> s.apiSecret, passwordSet |-> TRUE]],
          uploadResType |-> ImageType,
          basePathDir |-> <<>>,
          prependPath |-> <<>>,
          simulate |-> FALSE,
          verbose |-> FALSE,
          keepFilesPattern |-> NoPattern]

\* Dial of the older client after the connection string is checked
DialOf(s) ==
    IF s.err THEN DialError
    ELSE DialURLs(s, Parse(baseUploadURL \o <<"/">> \o s.cloudName \o S_imageUpload),
                  Parse(baseAdminURL \o <<"/">> \o s.cloudName))

\* Dial of the older client after url.Parse: the checks of the connection
\* string
DialConn(u) ==
    IF u.err THEN DialError
    ELSE IF u.Scheme # S_cloudinary THEN DialError
    ELSE IF ~Password(u.User).exists THEN DialError
    ELSE [err |-> FALSE,
          cloudName |-> u.Host,
          apiKey |-> Username(u.User),
          apiSecret |-> Password(u.User).secret]

\* Dial of the older client: the Service, with the upload and the admin URL
\* built from the cloud name.
Dial(uri) == DialOf(DialConn(Parse(uri)))

---------------------------------------------------------------------------
(* The connection strings Dial is tried on: every concatenation of a       *)
(* scheme, a separator, a userinfo, a host and a tail.                     *)

UriSchemes ==
    {S_cloudinary,
     <<"C">> \o Tail(S_cloudinary),
     S_cloudinary \o <<"k">>,
     <<"h", "t", "t", "p">>,
     <<>>}

UriSeparators == {<<":", "/", "/">>, <<":">>, <<":", "/">>, <<"/", "/">>}

UriUserinfos ==
    {<<"k", ":", "s", "@">>,
     <<"k", "@">>,
     <<"k", ":", "@">>,
     <<":", "s", "@">>,
     <<"k", ":", "s", "@", "k", "@">>,
     <<"k", ":", "%", "2", "a", "@">>,
     <<"k", ":", "%", "s", "@">>,
     <<"k", " ", ":", "s", "@">>,
     <<>>}

UriHosts ==
    {<<"c">>,
     <<>>,
     <<"c", ":", "8">>,
     <<"c", ":", "k">>,
     <<"c", " ">>,
     <<"%", "a", "2">>,
     <<"%", "2", "a">>,
     <<"c", "%", "2", "5">>,
     <<"c", "%", "2", "5", "a", "2">>,
     <<"l", "o", "c", "a", "l", "h", "o", "s", "t">>}

UriTails == {<<>>, <<"/", "p">>, <<"/", "%", "k">>, <<"?", "q">>, <<"#", "%">>}

Uris ==
    {a \o b \o c \o d \o e :
        a \in UriSchemes, b \in UriSeparators, c \in UriUserinfos, d \in UriHosts, e \in UriTails}

InitDial ==
    /\ input \in {[fn |-> "Dial", uri |-> u] : u \in Uris}
    /\ output = None
    /\ MachineUnused

\* One call of each Dial on the same connection string.
CallDial ==
    /\ input.fn = "Dial"
    /\ output = None
    /\ output' = [service |-> DialService(input.uri), older |-> Dial(input.uri)]
    /\ UNCHANGED <<input, machine>>

NextDial == CallDial

SpecDial == InitDial /\ [][NextDial]_vars

---------------------------------------------------------------------------
(* Request signing of service.go.                                          *)

\* The bytes of the model in ASCII order.
AsciiOrder ==
    <<"\t", "\n", " ", "\"", "%", "&", "(", "*", ".", "/",
      "0", "1", "2", "3", "4", "5", "6", "7", "8", "9", ":", "=", "?", "@",
      "B", "C", "K", "P", "R", "U", "Z", "^", "_",
      "a", "b", "c", "d", "e", "f", "g", "h", "i", "j", "k", "l", "m",
      "n", "o", "p", "q", "r", "s", "t", "u", "v", "w", "x", "y", "z">>

Ord(c) == CHOOSE i \in 1..Len(AsciiOrder) : AsciiOrder[i] = c

RECURSIVE StrLess(_, _)
\* a < b of two Go strings: byte-wise, a proper prefix first
StrLess(a, b) ==
    IF b = <<>> THEN FALSE
    ELSE IF a = <<>> THEN TRUE
    ELSE IF Head(a) = Head(b) THEN StrLess(Tail(a), Tail(b))
    ELSE Ord(Head(a)) < Ord(Head(b))

RECURSIVE InsertSorted(_, _)
InsertSorted(k, sorted) ==
    IF sorted = <<>> THEN <<k>>
    ELSE IF StrLess(k, Head(sorted)) THEN <<k>> \o sorted
    ELSE <<Head(sorted)>> \o InsertSorted(k, Tail(sorted))

\* sort.Strings left out: the keys stay in the order of the map iteration
SortStringsLeftOut(keys) == keys

RECURSIVE SortStrings(_)
\* sort.Strings
SortStrings(keys) ==
    IF keys = <<>> THEN <<>>
    ELSE InsertSorted(Head(keys), SortStrings(Tail(keys)))

DigitOf(d) == <<"0", "1", "2", "3", "4", "5", "6", "7", "8", "9">>[d + 1]

RECURSIVE FormatInt(_)
\* strconv.FormatInt(n, 10) of n >= 0
FormatInt(n) == IF n < 10 THEN <<DigitOf(n)>> ELSE FormatInt(n \div 10) \o <<DigitOf(n % 10)>>

\* fmt.Sprintf("%x", sha1(part)): the digest is not computed; it is a term
\* over the hashed text, so two digests are equal exactly when the texts are.
Sha1Hex(part) == <<"sha1(">> \o part \o <<")">>

S_api_key == <<"a", "p", "i", "_", "k", "e", "y">>
S_timestamp == <<"t", "i", "m", "e", "s", "t", "a", "m", "p">>
S_signature == <<"s", "i", "g", "n", "a", "t", "u", "r", "e">>
S_public_id == <<"p", "u", "b", "l", "i", "c", "_", "i", "d">>

RECURSIVE JoinParams(_, _)
\* the loop over the sorted keys: key=value, with & between two pairs
JoinParams(keys, params) ==
    IF keys = <<>> THEN <<>>
    ELSE Head(keys) \o <<"=">> \o params[Head(keys)]
         \o (IF Len(keys) > 1 THEN <<"&">> ELSE <<>>)
         \o JoinParams(Tail(keys), params)

\* params[key] = value of a Go map
MapSet(params, key, value) ==
    [k \in DOMAIN params \cup {key} |-> IF k = key THEN value ELSE params[k]]

\* The sequences that list every element of S once: the orders in which a
\* range loop may visit a map with these keys.
Orders(S) == {o \in [1..Cardinality(S) -> S] : \A x \in S : \E i \in DOMAIN o : o[i] = x}

\* the end of newRequest: the fields written to the multipart writer, in
\* order; part is the text that is hashed
signedRequest(s, uri, method, timestamp, part) ==
    [uri |-> uri,
     method |-> method,
     fields |-> << <<S_api_key, s.apiKey>>,
                   <<S_timestamp, timestamp>>,
                   <<S_signature, Sha1Hex(part)>> >>]

\* newRequest with the timestamp as text
newRequestAt(s, uri, method, params, timestamp, order) ==
    signedRequest(s, uri, method, timestamp,
                  JoinParams(SortStrings(order), MapSet(params, S_timestamp, timestamp))
                  \o s.apiSecret)

\* (*Service).newRequest. now is time.Now().Unix(); order lists the keys of
\* the map to sign in the order in which the range loop visits them.
newRequest(s, uri, method, params, now, order) ==
    newRequestAt(s, uri, method, params, FormatInt(now), order)

\* The key set of the map that newRequest signs
SignedKeys(params) == DOMAIN params \cup {S_timestamp}

MaxParams == 2

ParamKeys == {S_public_id, S_timestamp, <<"a">>, <<"a", "b">>, <<"B">>, <<"_">>}

ParamValues == {<<"x">>, <<"y", "&">>}

ParamMaps ==
    UNION {[ks -> ParamValues] : ks \in {k \in SUBSET ParamKeys : Cardinality(k) <= MaxParams}}

Clock == {9, 10}

InitSign ==
    /\ input \in {[fn |-> "newRequest", params |-> p, apiSecret |-> sec] :
                    p \in ParamMaps, sec \in {<<"s">>, <<"a", "=">>}}
    /\ output = None
    /\ MachineUnused

\* One call of newRequest, at any time and with any iteration order of the map.
CallNewRequest ==
    /\ input.fn = "newRequest"
    /\ output = None
    /\ \E now \in Clock, order \in Orders(SignedKeys(input.params)) :
          output' = [order |-> order,
                     request |-> newRequest([apiKey |-> <<"k">>, apiSecret |-> input.apiSecret],
                                            <<"u">>, <<"P", "O", "S", "T">>,
                                            input.params, now, order)]
    /\ UNCHANGED <<input, machine>>

NextSign == CallNewRequest

SpecSign == InitSign /\ [][NextSign]_vars

---------------------------------------------------------------------------
(* Package path/filepath on a system whose os.PathSeparator is '/'.        *)

PathSeparator == "/"

RECURSIVE SplitFrom(_, _, _)
\* the elements of p between its separators, empty ones included: out holds
\* the elements before the byte at from, i is the index of the next separator
SplitFrom(p, from, out) ==
    IF IndexFrom(p, <<PathSeparator>>, from) = 0
    THEN Append(out, SubSeq(p, from, Len(p)))
    ELSE SplitFrom(p, IndexFrom(p, <<PathSeparator>>, from) + 1,
                   Append(out, SubSeq(p, from, IndexFrom(p, <<PathSeparator>>, from) - 1)))

SplitPath(p) == SplitFrom(p, 1, <<>>)

RECURSIVE CleanElems(_, _, _)
\* Clean's pass over the elements: "" and "." are dropped, ".." removes the
\* element before it (or is dropped at the root, or kept in a relative path).
CleanElems(elems, out, rooted) ==
    IF elems = <<>> THEN out
    ELSE IF Head(elems) = <<>> \/ Head(elems) = <<".">> THEN CleanElems(Tail(elems), out, rooted)
    ELSE IF Head(elems) = <<".", ".">>
    THEN IF out # <<>> /\ out[Len(out)] # <<".", ".">>
         THEN CleanElems(Tail(elems), Take(out, Len(out) - 1), rooted)
         ELSE IF rooted THEN CleanElems(Tail(elems), out, rooted)
         ELSE CleanElems(Tail(elems), Append(out, Head(elems)), rooted)
    ELSE CleanElems(Tail(elems), Append(out, Head(elems)), rooted)

RECURSIVE JoinElems(_)
JoinElems(elems) ==
    IF elems = <<>> THEN <<>>
    ELSE IF Len(elems) = 1 THEN Head(elems)
    ELSE Head(elems) \o <<PathSeparator>> \o JoinElems(Tail(elems))

\* the end of Clean: the root and the elements are put together
CleanOf(rooted, body) ==
    IF rooted THEN <<PathSeparator>> \o body
    ELSE IF body = <<>> THEN <<".">>
    ELSE body

\* filepath.Clean
Clean(p) ==
    CleanOf(p # <<>> /\ p[1] = PathSeparator,
            JoinElems(CleanElems(SplitPath(p), <<>>, p # <<>> /\ p[1] = PathSeparator)))

\* filepath.Join of two elements
Join(a, b) ==
    IF a = <<>> /\ b = <<>> THEN <<>>
    ELSE Clean(IF a = <<>> THEN b ELSE IF b = <<>> THEN a ELSE a \o <<PathSeparator>> \o b)

IsAbs(p) == HasPrefix(p, <<PathSeparator>>)

\* os.Getwd fails (the working directory was removed, say)
NoWd == <<"?">>

\* filepath.Abs with the working directory wd: [err, s]
Abs(p, wd) ==
    IF IsAbs(p) THEN [err |-> FALSE, s |-> Clean(p)]
    ELSE IF wd = NoWd THEN [err |-> TRUE, s |-> <<>>]
    ELSE [err |-> FALSE, s |-> Join(wd, p)]

RECURSIVE ExtFrom(_, _)
ExtFrom(p, i) ==
    IF i < 1 \/ p[i] = PathSeparator THEN <<>>
    ELSE IF p[i] = "." THEN Drop(p, i - 1)
    ELSE ExtFrom(p, i - 1)

\* filepath.Ext: from the last dot of the last element on
Ext(p) == ExtFrom(p, Len(p))

---------------------------------------------------------------------------
(* cleanAssetName.                                                         *)

\* EnsureTrailingSlash
EnsureTrailingSlash(dirname) ==
    IF ~HasSuffix(dirname, <<"/">>) THEN dirname \o <<"/">> ELSE dirname

Panic == [panic |-> TRUE, s |-> <<>>]

\* cleanAssetName that keeps the file name only, without its directories
cleanNameFlat(name, prependPath) ==
    prependPath \o Drop(Take(name, Len(name) - Len(Ext(name))), LastIndex(name, <<PathSeparator>>))

\* the end of cleanAssetName: the extension is cut off, the prepend path put
\* in front, and the separators are turned into slashes
cleanName(name, prependPath) ==
    ReplaceAll(prependPath \o Take(name, Len(name) - Len(Ext(name))), <<PathSeparator>>, <<"/">>)

\* the prepend path of cleanAssetName: trimmed, without a separator in front
\* and with a slash at the end
cleanPrepend(prependT) ==
    IF prependT = <<>> THEN prependT
    ELSE IF prependT[1] = PathSeparator THEN EnsureTrailingSlash(Tail(prependT))
    ELSE EnsureTrailingSlash(prependT)

\* cleanAssetName without a base path: the name is the path from its last
\* directory on, idx1 the index of the last separator
cleanLastDir(path, idx1, prependPath) ==
    IF idx1 = 0 THEN [panic |-> FALSE, s |-> cleanName(path, prependPath)]
    ELSE [panic |-> FALSE,
          s |-> cleanName(Drop(path, LastIndex(Take(path, idx1 - 1), <<PathSeparator>>)), prependPath)]

\* cleanAssetName with a base path: replaced is the path without the base
\* path; replaced[0] of an empty text is an index out of range
cleanBelowBase(replaced, prependPath) ==
    IF replaced = <<>> THEN Panic
    ELSE IF replaced[1] = PathSeparator THEN [panic |-> FALSE, s |-> cleanName(Tail(replaced), prependPath)]
    ELSE [panic |-> FALSE, s |-> cleanName(replaced, prependPath)]

\* cleanAssetName with the absolute path and base path
cleanAbs(path, basePath, prependPath) ==
    IF basePath = <<>> THEN cleanLastDir(path, LastIndex(path, <<PathSeparator>>), prependPath)
    ELSE cleanBelowBase(Replace1(path, basePath, <<>>), prependPath)

\* cleanAssetName after filepath.Abs of the base path and of the path: an
\* error leaves the base path empty and the path as it is
cleanTrimmed(pathT, apath, baseAbs, prependPath) ==
    cleanAbs(IF apath.err THEN pathT ELSE apath.s,
             IF baseAbs.err THEN <<>> ELSE baseAbs.s,
             prependPath)

\* cleanAssetName in a process whose working directory is wd: [panic, s]
cleanAssetName(path, basePath, prependPath, wd) ==
    cleanTrimmed(TrimSpace(path), Abs(TrimSpace(path), wd), Abs(TrimSpace(basePath), wd),
                 cleanPrepend(TrimSpace(prependPath)))

S_logo == <<"/", "t", "m", "p", "/", "i", "m", "a", "g", "e", "s", "/", "l", "o", "g", "o", ".", "p", "n", "g">>
S_css == <<"/", "t", "m", "p", "/", "c", "s", "s", "/", "d", "e", "f", "a", "u", "l", "t", ".", "c", "s", "s">>

CleanPaths ==
    {S_logo, S_css,
     <<"/", "t", "/", "i", "/", "l", ".", "p">>,
     <<"d", "/", "a", ".", "p">>,
     <<" ", "/", "t", "/", "a", ".", "p", " ">>,
     <<"/", "t", "/", "a">>,
     <<"/", "t", "/", ".", "h">>,
     <<"/", "t">>,
     <<"a", ".", "b", ".", "c">>}

CleanBases ==
    {<<>>, <<"/", "t", "m", "p", "/">>, <<"/", "t">>, <<"/", "t", "/">>, <<"d">>, <<"/">>, <<" ">>}

CleanPrepends == {<<>>, <<"n", "e", "w", "/">>, <<"n">>, <<"/", "n">>, <<" ">>, <<"n", "/", "/">>}

WorkDirs == {<<"/", "w">>, <<"/", "t", "m", "p">>, <<"/">>, <<"/", "t">>, NoWd}

InitClean ==
    /\ input \in {[fn |-> "cleanAssetName", path |-> p, basePath |-> b, prependPath |-> pp, wd |-> wd] :
                    p \in CleanPaths, b \in CleanBases, pp \in CleanPrepends, wd \in WorkDirs}
    /\ output = None
    /\ MachineUnused

CallCleanAssetName ==
    /\ input.fn = "cleanAssetName"
    /\ output = None
    /\ output' = cleanAssetName(input.path, input.basePath, input.prependPath, input.wd)
    /\ UNCHANGED <<input, machine>>

NextClean == CallCleanAssetName

SpecClean == InitClean /\ [][NextClean]_vars

---------------------------------------------------------------------------
(* The file system, as os.Stat, os.Open, ioutil.ReadAll and filepath.Walk  *)
(* see it. A tree maps the absolute path of an entry to its kind, its size *)
(* and its mode: "ok", "noread" (a file that cannot be opened, a directory *)
(* that cannot be listed) or "nosearch" (a directory whose entries cannot  *)
(* be stat'ed).                                                            *)

Entry(kind, size, mode) == [kind |-> kind, size |-> size, mode |-> mode]

\* an entry below a directory without search permission cannot be reached
Blocked(tree, a) ==
    \E d \in DOMAIN tree :
        /\ tree[d].kind = "dir" /\ tree[d].mode = "nosearch"
        /\ HasPrefix(a, d \o <<PathSeparator>>)

StatError == [err |-> TRUE, kind |-> "none", size |-> 0]

\* the entry at the absolute path a
StatAbs(tree, p, a) ==
    IF p = <<>> \/ a.err THEN StatError
    ELSE IF a.s \notin DOMAIN tree \/ Blocked(tree, a.s) THEN StatError
    ELSE [err |-> FALSE, kind |-> tree[a.s].kind, size |-> tree[a.s].size]

\* os.Stat and os.Lstat (the trees hold no symbolic links): [err, kind, size]
Stat(tree, wd, p) == StatAbs(tree, p, Abs(p, wd))

\* a regular file at a that can be read
ReadableAbs(tree, p, a) ==
    /\ ~StatAbs(tree, p, a).err
    /\ tree[a.s].kind = "file"
    /\ tree[a.s].mode # "noread"

\* os.Open followed by io.Copy succeeds: a readable regular file
Readable(tree, wd, p) == ReadableAbs(tree, p, Abs(p, wd))

RECURSIVE SortedSeq(_)
\* the strings of a set in increasing order
SortedSeq(S) ==
    IF S = {} THEN <<>>
    ELSE LET m == CHOOSE x \in S : \A y \in S \ {x} : StrLess(x, y)
         IN <<m>> \o SortedSeq(S \ {m})

\* the names of the entries of the directory whose path, with a separator at
\* its end, is prefix
NamesBelow(tree, prefix) ==
    {Drop(q, Len(prefix)) : q \in {q \in DOMAIN tree :
        /\ HasPrefix(q, prefix) /\ Len(q) > Len(prefix)
        /\ ~Contains(Drop(q, Len(prefix)), <<PathSeparator>>)}}

\* readDirNames of the directory at the absolute path a
readDirNamesAbs(tree, p, a) ==
    IF StatAbs(tree, p, a).err THEN [err |-> TRUE, names |-> <<>>]
    ELSE IF tree[a.s].mode = "noread" THEN [err |-> TRUE, names |-> <<>>]
    ELSE [err |-> FALSE,
          names |-> SortedSeq(NamesBelow(tree, IF a.s = <<PathSeparator>> THEN a.s
                                               ELSE a.s \o <<PathSeparator>>))]

\* readDirNames: [err, names], the names sorted
readDirNames(tree, wd, p) == readDirNamesAbs(tree, p, Abs(p, wd))

---------------------------------------------------------------------------
(* JSON and HTTP. A JSON value is [t, s, f]: its type, its text (a string  *)
(* or a number) and its members (an object). A response body is a JSON     *)
(* value or text that is not JSON (t = "bad").                             *)

NoMembers == [k \in {} |-> 0]

JBad == [t |-> "bad", s |-> <<>>, f |-> NoMembers]
JNull == [t |-> "null", s |-> <<>>, f |-> NoMembers]
JArray == [t |-> "array", s |-> <<>>, f |-> NoMembers]
JString(x) == [t |-> "string", s |-> x, f |-> NoMembers]
JNumber(x) == [t |-> "number", s |-> x, f |-> NoMembers]
JObject(members) == [t |-> "object", s |-> <<>>, f |-> members]

StatusOK == 200

S_ok == <<"o", "k">>

Bodies ==
    {JBad, JNull, JArray, JString(S_ok),
     JObject(NoMembers),
     JObject([result |-> JString(S_ok)]),
     JObject([result |-> JString(<<"n", "o">>)]),
     JObject([result |-> JNumber(<<"5">>)]),
     JObject([public_id |-> JString(<<"i", "d">>)]),
     JObject([public_id |-> JNumber(<<"5">>)]),
     JObject([error |-> JObject([message |-> JString(<<"m">>)])]),
     JObject([error |-> JObject([message |-> JNumber(<<"5">>)])]),
     JObject([error |-> JObject(NoMembers)]),
     JObject([error |-> JString(<<"m">>)])}

\* What the HTTP client gives back: a transport error, or a response.
NetError == [neterr |-> TRUE, StatusCode |-> 0, body |-> JBad]

Response(code, body) == [neterr |-> FALSE, StatusCode |-> code, body |-> body]

\* json.Decoder.Decode into an interface{}: [err, v]. v has the dynamic type
\* nil, string, float64, []interface{} or map[string]interface{}.
DecodeAny(body) ==
    IF body.t = "bad" THEN [err |-> TRUE, v |-> JNull]
    ELSE [err |-> FALSE, v |-> body]

IsMap(v) == v.t = "object"

IsString(v) == v.t = "string"

\* json.Decoder.Decode into a struct with the string members named in
\* members: [err, v]. null leaves the struct as it is; a value that is no
\* object, or a member of another type than string, is an error; members the
\* struct does not have are skipped.
DecodeStruct(body, members) ==
    LET zero == [k \in members |-> <<>>]
    IN IF body.t = "bad" THEN [err |-> TRUE, v |-> zero]
       ELSE IF body.t = "null" THEN [err |-> FALSE, v |-> zero]
       ELSE IF body.t # "object" THEN [err |-> TRUE, v |-> zero]
       ELSE IF \E k \in members \cap DOMAIN body.f : body.f[k].t \notin {"string", "null"}
       THEN [err |-> TRUE, v |-> zero]
       ELSE [err |-> FALSE,
             v |-> [k \in members |->
                      IF k \in DOMAIN body.f /\ body.f[k].t = "string" THEN body.f[k].s ELSE <<>>]]

\* the string members of uploadResponse and of Response that a body of the
\* model can set
UploadResponseMembers == {"public_id"}

ResponseMembers == {"public_id", "result"}

\* the part of handleHTTPResponse that reads the error message of a response
\* whose status is not 200: e is the member "error" of the body
errorMessage(e) ==
    IF ~IsMap(e) THEN [panic |-> TRUE, err |-> FALSE, m |-> JNull]
    ELSE IF "message" \notin DOMAIN e.f THEN [panic |-> TRUE, err |-> FALSE, m |-> JNull]
    ELSE IF ~IsString(e.f["message"]) THEN [panic |-> TRUE, err |-> FALSE, m |-> JNull]
    ELSE [panic |-> FALSE, err |-> TRUE, m |-> JNull]

\* handleHTTPResponse after the body is decoded into d
handleDecoded(resp, d) ==
    IF d.err THEN [panic |-> FALSE, err |-> TRUE, m |-> JNull]
    ELSE IF ~IsMap(d.v) THEN [panic |-> TRUE, err |-> FALSE, m |-> JNull]
    ELSE IF resp.StatusCode # StatusOK
    THEN IF "error" \in DOMAIN d.v.f THEN errorMessage(d.v.f["error"])
         ELSE [panic |-> FALSE, err |-> TRUE, m |-> JNull]
    ELSE [panic |-> FALSE, err |-> FALSE, m |-> d.v]

\* handleHTTPResponse: [panic, err, m]. A type assertion on a value of
\* another dynamic type panics.
handleHTTPResponse(resp) ==
    IF resp = None THEN [panic |-> FALSE, err |-> TRUE, m |-> JNull]
    ELSE handleDecoded(resp, DecodeAny(resp.body))

---------------------------------------------------------------------------
(* The older client: KeepFiles, uploadFile, Delete.                        *)

imageType == <<"i", "m", "a", "g", "e">>
videoType == <<"v", "i", "d", "e", "o">>
pdfType == <<"i", "m", "a", "g", "e">>
rawType == <<"r", "a", "w">>

S_POST == <<"P", "O", "S", "T">>
S_destroy == <<"d", "e", "s", "t", "r", "o", "y">>

\* regexp.Compile of a pattern that is a literal text, with ^ in front or
\* not; an opening parenthesis that is never closed is a syntax error:
\* [err, re]
Compile(pattern) ==
    IF Contains(pattern, <<"(">>) THEN [err |-> TRUE, re |-> NoPattern]
    ELSE IF HasPrefix(pattern, <<"^">>)
    THEN [err |-> FALSE, re |-> [set |-> TRUE, anchored |-> TRUE, lit |-> Tail(pattern)]]
    ELSE [err |-> FALSE, re |-> [set |-> TRUE, anchored |-> FALSE, lit |-> pattern]]

\* (*Regexp).MatchString
MatchString(re, str) == IF re.anchored THEN HasPrefix(str, re.lit) ELSE Contains(str, re.lit)

\* KeepFiles after regexp.Compile
KeepCompiled(s, c) ==
    IF c.err THEN [err |-> TRUE, s |-> s]
    ELSE [err |-> FALSE, s |-> [s EXCEPT !.keepFilesPattern = c.re]]

\* (*Service).KeepFiles: [err, s]
KeepFiles(s, pattern) ==
    IF Len(TrimSpace(pattern)) = 0 THEN [err |-> FALSE, s |-> s]
    ELSE KeepCompiled(s, Compile(pattern))

\* A request handed to the HTTP client.
Request(uri, kind, fields, file) ==
    [method |-> S_POST, uri |-> uri, kind |-> kind, fields |-> fields, file |-> file]

\* the result of uploadFile: what it returns (ret, err), whether it panicked
\* instead, and the requests it handed to the HTTP client
UploadResult(val, err, reqs) == [ret |-> val, err |-> err, panic |-> FALSE, reqs |-> reqs]

UploadPanic == [ret |-> <<>>, err |-> "nil", panic |-> TRUE, reqs |-> <<>>]

\* uploadFile without its test for an empty file
IsEmptyFileNever(fi) == FALSE

\* the test at the head of uploadFile: the file exists and holds no byte
IsEmptyFile(fi) == ~fi.err /\ fi.size = 0

\* a client that never simulates
SimulatedNever(s) == FALSE

\* the test of the simulate flag in uploadFile and in Delete
Simulated(s) == s.simulate

\* the text that uploadFile signs
uploadPart(s, randomPublicID, publicID, timestamp) ==
    IF ~randomPublicID
    THEN S_public_id \o <<"=">> \o publicID \o <<"&">> \o S_timestamp \o <<"=">> \o timestamp \o s.apiSecret
    ELSE S_timestamp \o <<"=">> \o timestamp \o s.apiSecret

\* the form fields that uploadFile writes, in order
uploadFields(s, randomPublicID, publicID, timestamp) ==
    (IF ~randomPublicID THEN << <<S_public_id, publicID>> >> ELSE <<>>)
    \o << <<S_api_key, s.apiKey>>,
          <<S_timestamp, timestamp>>,
          <<S_signature, Sha1Hex(uploadPart(s, randomPublicID, publicID, timestamp))>> >>

\* the URL that uploadFile posts to: upURI is the upload URL of the Service
uploadURL(s, upURI) ==
    IF s.uploadResType = PdfType THEN Replace1(upURI, imageType, pdfType)
    ELSE IF s.uploadResType = VideoType THEN Replace1(upURI, imageType, videoType)
    ELSE IF s.uploadResType = RawType THEN Replace1(upURI, imageType, rawType)
    ELSE upURI

\* the end of uploadFile: the body of a response with status 200 is decoded
uploadDecoded(fullPath, req, upInfo) ==
    IF upInfo.err THEN UploadResult(fullPath, "decode", <<req>>)
    ELSE UploadResult(upInfo.v["public_id"], "nil", <<req>>)

\* the part of uploadFile that sends the request
uploadSend(fullPath, req, http) ==
    IF http.neterr THEN UploadResult(fullPath, "transport", <<req>>)
    ELSE IF http.StatusCode # StatusOK THEN UploadResult(fullPath, "status", <<req>>)
    ELSE uploadDecoded(fullPath, req, DecodeStruct(http.body, UploadResponseMembers))

\* the part of uploadFile after the empty-file test: publicID is the result
\* of cleanAssetName, or no identifier for a random one
uploadNamed(s, tree, wd, fullPath, data, randomPublicID, publicID, timestamp, http) ==
    IF publicID.panic THEN UploadPanic
    ELSE IF data = "badreader" THEN UploadResult(fullPath, "read", <<>>)
    ELSE IF data = "nil" /\ ~Readable(tree, wd, fullPath) THEN UploadResult(fullPath, "open", <<>>)
    ELSE IF Simulated(s) THEN UploadResult(fullPath, "nil", <<>>)
    ELSE uploadSend(fullPath,
                    Request(uploadURL(s, URLString(s.uploadURI)), "multipart",
                            uploadFields(s, randomPublicID, publicID.s, timestamp), fullPath),
                    http)

\* (*Service).uploadFile. data is "nil", "reader" or "badreader" (a reader
\* whose Read fails); now is time.Now().Unix(); http is what the HTTP client
\* gives back if it is called.
uploadFile(s, tree, wd, fullPath, data, randomPublicID, now, http) ==
    IF IsEmptyFile(Stat(tree, wd, fullPath)) THEN UploadResult(fullPath, "nil", <<>>)
    ELSE uploadNamed(s, tree, wd, fullPath, data, randomPublicID,
                     IF randomPublicID THEN [panic |-> FALSE, s |-> <<>>]
                     ELSE cleanAssetName(fullPath, s.basePathDir, s.prependPath, wd),
                     FormatInt(now), http)

\* the result of Delete and of UploadDestroy: the error returned ("nil" for
\* none), whether the call panicked instead, the requests handed to the HTTP
\* client, and the steps taken, in order: "match" (the keep pattern is
\* tested), "sign" (a signature is computed), "post" (the request is sent)
CallResult(err, panic, reqs, events) ==
    [err |-> err, panic |-> panic, reqs |-> reqs, events |-> events]

\* Delete without its keep test
KeptNever(s, id) == FALSE

\* the keep test of Delete: a pattern is set and matches the identifier
Kept(s, id) == s.keepFilesPattern # NoPattern /\ MatchString(s.keepFilesPattern, id)

\* the text that Delete signs
deletePart(s, id, timestamp) ==
    S_public_id \o <<"=">> \o id \o <<"&">> \o S_timestamp \o <<"=">> \o timestamp \o s.apiSecret

\* the form that Delete posts; url.Values.Encode writes the keys in sorted
\* order
deleteData(s, id, timestamp) ==
    << <<S_api_key, s.apiKey>>,
       <<S_public_id, id>>,
       <<S_signature, Sha1Hex(deletePart(s, id, timestamp))>>,
       <<S_timestamp, timestamp>> >>

\* the URL that Delete posts to
deleteURL(s, rtype) ==
    baseUploadURL \o <<"/">> \o s.cloudName \o <<"/">>
    \o (IF rtype = RawType THEN rawType ELSE imageType) \o <<"/">> \o S_destroy \o <<"/">>

\* the end of Delete: h is what handleHTTPResponse returns. The type
\* assertion on a result that is no string panics.
deleteHandled(h, req, events) ==
    IF h.panic THEN CallResult("nil", TRUE, <<req>>, events)
    ELSE IF h.err THEN CallResult("response", FALSE, <<req>>, events)
    ELSE IF "result" \in DOMAIN h.m.f /\ ~IsString(h.m.f["result"])
    THEN CallResult("nil", TRUE, <<req>>, events)
    ELSE CallResult("nil", FALSE, <<req>>, events)

\* the part of Delete that sends the request
deleteSend(req, events, http) ==
    IF http.neterr THEN CallResult("transport", FALSE, <<req>>, events)
    ELSE deleteHandled(handleHTTPResponse(Response(http.StatusCode, http.body)), req, events)

\* Delete of the identifier id = prepend + publicID; tested is <<"match">>
\* if a keep pattern is set
deleteID(s, id, rtype, timestamp, tested, http) ==
    IF Kept(s, id) THEN CallResult("nil", FALSE, <<>>, tested)
    ELSE IF Simulated(s) THEN CallResult("nil", FALSE, <<>>, tested)
    ELSE deleteSend(Request(deleteURL(s, rtype), "form", deleteData(s, id, timestamp), <<>>),
                    tested \o <<"sign", "post">>, http)

\* (*Service).Delete
Delete(s, publicID, prepend, rtype, now, http) ==
    deleteID(s, prepend \o publicID, rtype, FormatInt(now),
             IF s.keepFilesPattern.set THEN <<"match">> ELSE <<>>, http)

S_rename == <<"r", "e", "n", "a", "m", "e">>
S_from_public_id == <<"f", "r", "o", "m", "_">> \o S_public_id
S_to_public_id == <<"t", "o", "_">> \o S_public_id

\* the text that Rename signs: from is prepend + publicID, toPublicID is
\* the new identifier as line 541 writes it
renamePart(s, from, toPublicID, timestamp) ==
    S_from_public_id \o <<"=">> \o from \o <<"&">> \o S_timestamp \o <<"=">> \o timestamp
    \o <<"&">> \o S_to_public_id \o <<"=">> \o toPublicID \o s.apiSecret

\* the form that Rename posts: to is prepend + toPublicID; url.Values.Encode
\* writes the keys in sorted order
renameData(s, from, to, toPublicID, timestamp) ==
    << <<S_api_key, s.apiKey>>,
       <<S_from_public_id, from>>,
       <<S_signature, Sha1Hex(renamePart(s, from, toPublicID, timestamp))>>,
       <<S_timestamp, timestamp>>,
       <<S_to_public_id, to>> >>

\* the URL that Rename posts to
renameURL(s, rtype) ==
    baseUploadURL \o <<"/">> \o s.cloudName \o <<"/">>
    \o (IF rtype = RawType THEN rawType ELSE imageType) \o <<"/">> \o S_rename

\* the part of Rename that sends the request
renameSend(req, http) ==
    IF http.neterr THEN CallResult("transport", FALSE, <<req>>, <<"sign", "post">>)
    ELSE IF http.StatusCode # StatusOK THEN CallResult("status", FALSE, <<req>>, <<"sign", "post">>)
    ELSE CallResult("nil", FALSE, <<req>>, <<"sign", "post">>)

\* Rename of the identifiers without their leading slash
renameTrimmed(s, publicID, toPublicID, prepend, rtype, timestamp, http) ==
    renameSend(Request(renameURL(s, rtype), "form",
                       renameData(s, prepend \o publicID, prepend \o toPublicID,
                                  toPublicID, timestamp),
                       <<>>),
               http)

\* (*Service).Rename
Rename(s, publicID, toPublicID, prepend, rtype, now, http) ==
    renameTrimmed(s, TrimPrefix(publicID, <<"/">>), TrimPrefix(toPublicID, <<"/">>),
                  prepend, rtype, FormatInt(now), http)

---------------------------------------------------------------------------
(* The newer client: UploadDestroy and do.                                 *)

\* decode, and the end of do: [err, resp], resp the decoded Response
decode(info) ==
    IF info.err THEN [err |-> "decode", resp |-> info.v]
    ELSE [err |-> "nil", resp |-> info.v]

\* (*Service).do after build
do(http) ==
    IF http.neterr THEN [err |-> "transport", resp |-> None]
    ELSE IF http.StatusCode # StatusOK THEN [err |-> "status", resp |-> None]
    ELSE decode(DecodeStruct(http.body, ResponseMembers))

\* the URL that UploadDestroy posts to
destroyURL(s, resourceType) ==
    baseUploadURL \o <<"/">> \o s.cloudName \o <<"/">> \o resourceType \o <<"/">> \o S_destroy

\* the end of UploadDestroy: d is what do returns
destroyDone(d, req) ==
    IF d.err # "nil" THEN CallResult(d.err, FALSE, <<req>>, <<"sign", "post">>)
    ELSE IF d.resp["result"] = S_ok THEN CallResult("nil", FALSE, <<req>>, <<"sign", "post">>)
    ELSE CallResult("invalid response", FALSE, <<req>>, <<"sign", "post">>)

\* UploadDestroy after newRequest: the identifier is written as a field, and
\* the request is sent
destroyRequest(r, publicID, http) ==
    destroyDone(do(http),
                Request(r.uri, "multipart", r.fields \o << <<S_public_id, publicID>> >>, <<>>))

\* (*Service).UploadDestroy. resourceType is the text the caller passes;
\* order is the order in which newRequest's range loop visits the map.
UploadDestroy(s, publicID, resourceType, now, order, http) ==
    destroyRequest(newRequest(s, destroyURL(s, resourceType), S_POST,
                              [k \in {S_public_id} |-> publicID], now, order),
                   publicID, http)

---------------------------------------------------------------------------
(* The client as a state machine: one Service, used by one caller.         *)

\* (*Service).walkIt, the function that filepath.Walk calls for each entry.
\* info is the os.FileInfo of the entry, with info.err set where Walk passes
\* a nil FileInfo (Lstat failed) and calling info.IsDir panics; err, the
\* error that Walk found at this entry, is not read.
walkIt(s, tree, wd, path, info, err, now, http) ==
    IF info.err THEN UploadPanic
    ELSE IF info.kind = "dir" THEN UploadResult(path, "nil", <<>>)
    ELSE uploadFile(s, tree, wd, path, "nil", FALSE, now, http)

S_w == <<"/", "w">>

File(size, mode) == Entry("file", size, mode)

\* the size of a directory is that of its table of entries, which is not empty
Dir(mode) == Entry("dir", 1, mode)

\* The working directory /w holds
\*   d    a directory with two files that differ in the extension only, an
\*        empty file and a subdirectory with a file of the same name;
\*   u    a directory with a subdirectory that cannot be listed, and a file;
\*   v    a directory with a subdirectory whose entries cannot be stat'ed;
\*   r.p  a file that cannot be opened.
Tree ==
    (S_w :> Dir("ok"))
    @@ (S_w \o <<"/", "d">> :> Dir("ok"))
    @@ (S_w \o <<"/", "d", "/", "a", ".", "j">> :> File(1, "ok"))
    @@ (S_w \o <<"/", "d", "/", "a", ".", "p">> :> File(1, "ok"))
    @@ (S_w \o <<"/", "d", "/", "e">> :> File(0, "ok"))
    @@ (S_w \o <<"/", "d", "/", "s">> :> Dir("ok"))
    @@ (S_w \o <<"/", "d", "/", "s", "/", "a", ".", "p">> :> File(1, "ok"))
    @@ (S_w \o <<"/", "u">> :> Dir("ok"))
    @@ (S_w \o <<"/", "u", "/", "n">> :> Dir("noread"))
    @@ (S_w \o <<"/", "u", "/", "n", "/", "c", ".", "p">> :> File(1, "ok"))
    @@ (S_w \o <<"/", "u", "/", "z", ".", "p">> :> File(1, "ok"))
    @@ (S_w \o <<"/", "v">> :> Dir("ok"))
    @@ (S_w \o <<"/", "v", "/", "x">> :> Dir("nosearch"))
    @@ (S_w \o <<"/", "v", "/", "x", "/", "c", ".", "p">> :> File(1, "ok"))
    @@ (S_w \o <<"/", "r", ".", "p">> :> File(1, "noread"))

Worlds == {[tree |-> Tree, wd |-> S_w]}

MainUris == {S_cloudinary \o <<":", "/", "/", "k", ":", "s", "@", "c">>}

\* the paths handed to Upload: the three directories, a file, the empty
\* file, the file that cannot be opened, a path that does not exist, and
\* the empty path
UploadPaths ==
    {<<"d">>, <<"u">>, <<"v">>,
     <<"d", "/", "a", ".", "p">>,
     <<"d", "/", "e">>,
     <<"r", ".", "p">>,
     <<"q", ".", "p">>,
     <<>>}

Readers == {"nil", "reader", "badreader"}

Prepends == {<<>>, <<"p", "/">>}

PublicIDs == {<<"k">>, <<"x">>}

KeepPatterns == {<<"k">>, <<"^", "p", "/">>, <<" ">>, <<"(">>}

\* the time of the calls of the state machine
Epoch == {9}

UploadOutcomes ==
    {NetError,
     Response(404, JObject([error |-> JObject([message |-> JString(<<"m">>)])])),
     Response(StatusOK, JBad),
     Response(StatusOK, JObject(NoMembers)),
     Response(StatusOK, JObject([public_id |-> JString(<<"i", "d">>)]))}

DestroyOutcomes ==
    UploadOutcomes \cup
    {Response(StatusOK, JArray),
     Response(StatusOK, JObject([result |-> JString(S_ok)])),
     Response(StatusOK, JObject([result |-> JString(<<"n", "o">>)])),
     Response(StatusOK, JObject([result |-> JNumber(<<"5">>)]))}

\* The arguments that the caller passes to Upload, and the prepend path and
\* the resource type that it passes to Delete.
Plans ==
    [fn : {"main"}, path : UploadPaths, data : Readers, prepend : Prepends,
     randomPublicID : BOOLEAN, rtype : ResourceType]

InitMachine ==
    /\ output = None
    /\ svc \in {Dial(u) : u \in MainUris}
    /\ world \in Worlds
    /\ pc = "idle"
    /\ agenda = <<>>
    /\ call = None
    /\ ufLog = <<>>
    /\ ret = None

Init ==
    /\ input \in Plans
    /\ InitMachine

\* (*Service).Simulate
Simulate(v) ==
    /\ pc = "idle"
    /\ svc' = [svc EXCEPT !.simulate = v]
    /\ UNCHANGED <<input, output, world, pc, agenda, call, ufLog, ret>>

\* (*Service).KeepFiles
CallKeepFiles(pattern) ==
    /\ pc = "idle"
    /\ \E k \in {KeepFiles(svc, pattern)} :
          /\ svc' = k.s
          /\ ret' = CallResult(IF k.err THEN "syntax" ELSE "nil", FALSE, <<>>, <<>>)
    /\ pc' = "done"
    /\ call' = [op |-> "KeepFiles", pattern |-> pattern]
    /\ UNCHANGED <<input, output, world, agenda, ufLog>>

\* what Upload returns: the path or the identifier and the error, or that
\* the call panicked instead
UploadReturn(val, err, panic) ==
    [val |-> val, err |-> err, panic |-> panic]

\* one call of uploadFile as the log keeps it: its arguments and its result
Logged(fullPath, data, randomPublicID, res) ==
    [fullPath |-> fullPath, data |-> data, randomPublicID |-> randomPublicID, res |-> res]

\* Upload without its store to s.prependPath
StorePrependPathLeftOut(s, prepend) == s

\* s.uploadResType = rtype
StoreResType(s, rtype) == [s EXCEPT !.uploadResType = rtype]

\* s.basePathDir = "" and s.basePathDir = path
StoreBasePathDir(s, path) == [s EXCEPT !.basePathDir = path]

\* s.prependPath = prepend
StorePrependPath(s, prepend) == [s EXCEPT !.prependPath = prepend]

\* (*Service).Upload up to the return, or up to the call of filepath.Walk
CallUpload(path, data, prepend, randomPublicID, rtype) ==
    /\ pc = "idle"
    /\ call' = [op |-> "Upload", path |-> path, data |-> data, prepend |-> prepend,
                randomPublicID |-> randomPublicID, rtype |-> rtype]
    /\ UNCHANGED <<input, output, world>>
    /\ \E s1 \in {StorePrependPath(StoreBasePathDir(StoreResType(svc, rtype), <<>>), prepend)},
          info \in {Stat(world.tree, world.wd, path)} :
          IF data = "nil" /\ info.err
          THEN /\ svc' = s1
               /\ pc' = "done"
               /\ ret' = UploadReturn(path, "stat", FALSE)
               /\ UNCHANGED <<agenda, ufLog>>
          ELSE IF data = "nil" /\ info.kind = "dir"
          THEN /\ svc' = StoreBasePathDir(s1, path)
               /\ pc' = "walk"
               /\ agenda' = <<path>>
               /\ UNCHANGED <<ufLog, ret>>
          ELSE \E now \in Epoch, http \in UploadOutcomes :
                  \E r \in {uploadFile(s1, world.tree, world.wd, path, data, randomPublicID, now, http)} :
                     /\ svc' = s1
                     /\ pc' = "done"
                     /\ ufLog' = <<Logged(path, data, randomPublicID, r)>>
                     /\ ret' = UploadReturn(r.ret, r.err, r.panic)
                     /\ UNCHANGED agenda

\* the entries that filepath.Walk has to visit after the entry at path, whose
\* names are listed in names if it is a directory that could be read
WalkRest(path, names, listed, rest) ==
    IF listed /\ ~names.err
    THEN [i \in 1..Len(names.names) |-> Join(path, names.names[i])] \o rest
    ELSE rest

\* filepath.Walk visits the next entry and calls walkIt; after the last
\* entry, or at the first error, Walk and Upload return.
WalkStep ==
    /\ pc = "walk"
    /\ \E now \in Epoch, http \in UploadOutcomes :
       \E info \in {Stat(world.tree, world.wd, Head(agenda))},
          names \in {readDirNames(world.tree, world.wd, Head(agenda))} :
       \E listed \in {~info.err /\ info.kind = "dir"} :
       \E r \in {walkIt(svc, world.tree, world.wd, Head(agenda), info,
                        info.err \/ (listed /\ names.err), now, http)},
          rest \in {WalkRest(Head(agenda), names, listed, Tail(agenda))} :
       \E stop \in {r.panic \/ r.err # "nil" \/ rest = <<>>} :
          /\ ufLog' = IF ~info.err /\ info.kind = "file"
                      THEN Append(ufLog, Logged(Head(agenda), "nil", FALSE, r))
                      ELSE ufLog
          /\ agenda' = IF stop THEN <<>> ELSE rest
          /\ pc' = IF stop THEN "done" ELSE "walk"
          /\ ret' = IF stop THEN UploadReturn(call.path, r.err, r.panic) ELSE None
    /\ UNCHANGED <<input, output, svc, world, call>>

\* (*Service).Delete
CallDelete(publicID, prepend, rtype) ==
    /\ pc = "idle"
    /\ \E now \in Epoch, http \in DestroyOutcomes :
          /\ ret' = Delete(svc, publicID, prepend, rtype, now, http)
          /\ call' = [op |-> "Delete", publicID |-> publicID, prepend |-> prepend,
                      rtype |-> rtype, http |-> http]
    /\ pc' = "done"
    /\ UNCHANGED <<input, output, svc, world, agenda, ufLog>>

\* (*Service).UploadDestroy of the newer client, dialled with the same
\* connection string
CallUploadDestroy(publicID, resourceType) ==
    /\ pc = "idle"
    /\ \E now \in Epoch, http \in DestroyOutcomes, order \in Orders({S_public_id, S_timestamp}) :
          /\ ret' = UploadDestroy(svc, publicID, resourceType, now, order, http)
          /\ call' = [op |-> "UploadDestroy", publicID |-> publicID,
                      resourceType |-> resourceType, http |-> http]
    /\ pc' = "done"
    /\ UNCHANGED <<input, output, svc, world, agenda, ufLog>>

\* The caller has the result and is ready for its next call.
Return ==
    /\ pc = "done"
    /\ pc' = "idle"
    /\ call' = None
    /\ ret' = None
    /\ ufLog' = <<>>
    /\ UNCHANGED <<input, output, svc, world, agenda>>

\* The older client uploads and deletes as the caller has planned.
Next ==
    \/ \E v \in BOOLEAN : Simulate(v)
    \/ CallUpload(input.path, input.data, input.prepend, input.randomPublicID, input.rtype)
    \/ WalkStep
    \/ \E publicID \in PublicIDs : CallDelete(publicID, input.prepend, input.rtype)
    \/ Return

Spec == Init /\ [][Next]_vars

InitDestroy ==
    /\ input = [fn |-> "destroy"]
    /\ InitMachine

\* Both clients delete, with and without a keep pattern.
NextDestroy ==
    \/ \E v \in BOOLEAN : Simulate(v)
    \/ \E pattern \in KeepPatterns : CallKeepFiles(pattern)
    \/ \E publicID \in PublicIDs, prepend \in Prepends, rtype \in ResourceType :
          CallDelete(publicID, prepend, rtype)
    \/ \E publicID \in PublicIDs, resourceType \in {imageType, rawType} :
          CallUploadDestroy(publicID, resourceType)
    \/ Return

SpecDestroy == InitDestroy /\ [][NextDestroy]_vars

---------------------------------------------------------------------------
(* The requests on the wire: every operation of the older client that      *)
(* sends a request, for two cloud names.                                   *)

\* (*Service).Rename
CallRename(publicID, toPublicID, prepend, rtype) ==
    /\ pc = "idle"
    /\ \E now \in Epoch, http \in UploadOutcomes :
          /\ ret' = Rename(svc, publicID, toPublicID, prepend, rtype, now, http)
          /\ call' = [op |-> "Rename", publicID |-> publicID, toPublicID |-> toPublicID,
                      prepend |-> prepend, rtype |-> rtype, http |-> http]
    /\ pc' = "done"
    /\ UNCHANGED <<input, output, svc, world, agenda, ufLog>>

\* a cloud name of one letter, and one that holds the word "image"
WireUris ==
    MainUris \cup {S_cloudinary \o <<":", "/", "/", "k", ":", "s", "@">> \o imageType \o <<"s">>}

\* a file of the tree, by its relative and by its absolute path
WirePaths == {<<"d", "/", "a", ".", "p">>, S_w \o <<"/", "d", "/", "a", ".", "p">>}

\* identifiers with and without a leading slash
WireIDs == PublicIDs \cup {<<"/", "k">>}

InitWire ==
    /\ input = [fn |-> "wire"]
    /\ output = None
    /\ svc \in {Dial(u) : u \in WireUris}
    /\ world \in Worlds
    /\ pc = "idle"
    /\ agenda = <<>>
    /\ call = None
    /\ ufLog = <<>>
    /\ ret = None

\* The older client uploads a file, deletes and renames, for every resource
\* type and prepend path.
NextWire ==
    \/ \E path \in WirePaths, data \in {"nil", "reader"}, prepend \in Prepends,
          randomPublicID \in BOOLEAN, rtype \in ResourceType :
          CallUpload(path, data, prepend, randomPublicID, rtype)
    \/ \E publicID \in WireIDs, prepend \in Prepends, rtype \in ResourceType :
          CallDelete(publicID, prepend, rtype)
    \/ \E publicID \in WireIDs, toPublicID \in WireIDs, prepend \in Prepends, rtype \in ResourceType :
          CallRename(publicID, toPublicID, prepend, rtype)
    \/ Return

SpecWire == InitWire /\ [][NextWire]_vars

---------------------------------------------------------------------------
(* Two callers on one Service. Upload keeps its arguments in the fields    *)
(* uploadResType, basePathDir and prependPath of the Service (lines        *)
(* 426-428 and 436) and uploadFile reads them back (lines 277 and 346-350),*)
(* with no lock. Each store and each load is a step of its own. Once the   *)
(* two calls overlap nothing orders the accesses of one goroutine with     *)
(* those of the other, and by the Go memory model a load then observes the *)
(* goroutine's own last store or any store of the other goroutine made so  *)
(* far; a load of a string, which is wider than a word, may also observe a *)
(* pointer and a length of two stores, after which nothing is known of the *)
(* program.                                                                *)

Other(i) == 3 - i

\* a value that a load observes, or a pointer and a length that do not belong together
Loaded(v) == [ok |-> TRUE, v |-> v]

Inconsistent == [ok |-> FALSE, v |-> <<>>]

\* what the load of the field f by the caller i may observe; wide is TRUE
\* for a string
LoadSet(i, f, wide) ==
    IF ~call.overlapped THEN {Loaded(svc[f])}
    ELSE {Loaded(call.th[i].last[f])}
         \cup {Loaded(v) : v \in call.th[Other(i)].wrote[f]}
         \cup (IF wide /\ call.th[Other(i)].wrote[f] # {} THEN {Inconsistent} ELSE {})

\* the caller after its store of v to the field f
Stored(t, f, v, at) ==
    [t EXCEPT !.at = at, !.last[f] = v, !.wrote[f] = @ \cup {v}]

\* a call of uploadFile by a caller as the log keeps it: the values of the
\* fields that it loaded, and its result; res is None if a load was
\* inconsistent
RaceLogged(i, fullPath, base, prepend, rtype, res) ==
    [who |-> i, fullPath |-> fullPath, base |-> base, prepend |-> prepend,
     rtype |-> rtype, res |-> res]

\* the calls of the two callers: a directory with one file, as raw files
\* below p/, the same directory as videos, and a single file as an image
RacePlans ==
    {[path |-> <<"d", "/", "s">>, prepend |-> <<"p", "/">>, rtype |-> RawType],
     [path |-> <<"d", "/", "s">>, prepend |-> <<>>, rtype |-> VideoType],
     [path |-> <<"d", "/", "a", ".", "p">>, prepend |-> <<>>, rtype |-> ImageType]}

RaceOutcomes ==
    {NetError, Response(StatusOK, JObject([public_id |-> JString(<<"i", "d">>)]))}

\* a caller that has not called Upload yet
RaceCaller ==
    [at |-> "start", agenda |-> <<>>, file |-> <<>>, base |-> <<>>, prepend |-> <<>>,
     id |-> [panic |-> FALSE, s |-> <<>>],
     last |-> [uploadResType |-> ImageType, basePathDir |-> <<>>, prependPath |-> <<>>],
     wrote |-> [uploadResType |-> {}, basePathDir |-> {}, prependPath |-> {}]]

InitRace ==
    /\ input \in [fn : {"race"}, plan : [{1, 2} -> RacePlans]]
    /\ output = None
    /\ svc \in {Dial(u) : u \in MainUris}
    /\ world \in Worlds
    /\ pc = "race"
    /\ agenda = <<>>
    /\ call = [op |-> "Race", th |-> <<RaceCaller, RaceCaller>>, overlapped |-> FALSE]
    /\ ufLog = <<>>
    /\ ret = None

\* the state after a step of the caller i that changes its record only
RaceMoves(i, t) ==
    /\ call' = [call EXCEPT !.th[i] = t]
    /\ UNCHANGED <<input, output, world, pc, agenda, ret>>

\* the caller i after a store: s1 is the Service after the store
RaceStores(i, f, s1, at) ==
    /\ svc' = s1
    /\ RaceMoves(i, Stored(call.th[i], f, s1[f], at))
    /\ UNCHANGED ufLog

\* Upload, line 426. The call overlaps the other one if that is under way.
RaceEnter(i) ==
    /\ pc = "race"
    /\ call.th[i].at = "start"
    /\ svc' = StoreResType(svc, input.plan[i].rtype)
    /\ call' = [call EXCEPT
                   !.th[i] = Stored(call.th[i], "uploadResType", svc'.uploadResType, "base"),
                   !.overlapped = @ \/ call.th[Other(i)].at \notin {"start", "done"}]
    /\ UNCHANGED <<input, output, world, pc, agenda, ufLog, ret>>

\* Upload, line 427
RaceStoreBase(i) ==
    /\ pc = "race"
    /\ call.th[i].at = "base"
    /\ RaceStores(i, "basePathDir", StoreBasePathDir(svc, <<>>), "prepend")

\* Upload, line 428
RaceStorePrepend(i) ==
    /\ pc = "race"
    /\ call.th[i].at = "prepend"
    /\ RaceStores(i, "prependPath", StorePrependPath(svc, input.plan[i].prepend), "stat")

\* Upload, lines 430-435 and 441: data is nil
RaceStat(i) ==
    /\ pc = "race"
    /\ call.th[i].at = "stat"
    /\ \E info \in {Stat(world.tree, world.wd, input.plan[i].path)} :
          RaceMoves(i, [call.th[i] EXCEPT
                           !.at = IF info.err THEN "done"
                                  ELSE IF info.kind = "dir" THEN "dirbase" ELSE "file",
                           !.file = input.plan[i].path])
    /\ UNCHANGED <<svc, ufLog>>

\* Upload, lines 436-437: the store of the directory and the call of filepath.Walk
RaceStoreDir(i) ==
    /\ pc = "race"
    /\ call.th[i].at = "dirbase"
    /\ svc' = StoreBasePathDir(svc, input.plan[i].path)
    /\ RaceMoves(i, [Stored(call.th[i], "basePathDir", svc'.basePathDir, "walk")
                        EXCEPT !.agenda = <<input.plan[i].path>>])
    /\ UNCHANGED ufLog

\* filepath.Walk visits its next entry and calls walkIt, which returns for a
\* directory and calls uploadFile for a file.
RaceWalk(i) ==
    /\ pc = "race"
    /\ call.th[i].at = "walk"
    /\ \E todo \in {call.th[i].agenda} :
       \E info \in {Stat(world.tree, world.wd, Head(todo))},
          names \in {readDirNames(world.tree, world.wd, Head(todo))} :
       \E rest \in {WalkRest(Head(todo), names, ~info.err /\ info.kind = "dir", Tail(todo))} :
          RaceMoves(i, [call.th[i] EXCEPT
                           !.agenda = rest,
                           !.file = Head(todo),
                           !.at = IF info.err THEN "done"
                                  ELSE IF info.kind = "file" THEN "file"
                                  ELSE IF rest = <<>> THEN "done" ELSE "walk"])
    /\ UNCHANGED <<svc, ufLog>>

\* where the caller goes on after uploadFile has returned res
RaceAfter(t, res) ==
    IF res = None \/ res.panic \/ res.err # "nil" \/ t.agenda = <<>> THEN "done" ELSE "walk"

\* uploadFile, lines 264-277: the test for an empty file, and the load of
\* s.basePathDir, the first of the two fields that cleanAssetName is called with
RaceLoadBase(i) ==
    /\ pc = "race"
    /\ call.th[i].at = "file"
    /\ \E t \in {call.th[i]} :
          IF IsEmptyFile(Stat(world.tree, world.wd, t.file))
          THEN \E r \in {UploadResult(t.file, "nil", <<>>)} :
                  /\ ufLog' = Append(ufLog, RaceLogged(i, t.file, <<>>, <<>>, ImageType, r))
                  /\ RaceMoves(i, [t EXCEPT !.at = RaceAfter(t, r)])
          ELSE \E b \in LoadSet(i, "basePathDir", TRUE) :
                  IF b.ok
                  THEN /\ RaceMoves(i, [t EXCEPT !.at = "name", !.base = b.v])
                       /\ UNCHANGED ufLog
                  ELSE /\ ufLog' = Append(ufLog, RaceLogged(i, t.file, <<>>, <<>>, ImageType, None))
                       /\ RaceMoves(i, [t EXCEPT !.at = "done"])
    /\ UNCHANGED svc

\* uploadFile, line 277: the load of s.prependPath and the call of cleanAssetName
RaceLoadPrepend(i) ==
    /\ pc = "race"
    /\ call.th[i].at = "name"
    /\ \E t \in {call.th[i]}, p \in LoadSet(i, "prependPath", TRUE) :
          IF p.ok
          THEN /\ RaceMoves(i, [t EXCEPT !.at = "send", !.prepend = p.v,
                                         !.id = cleanAssetName(t.file, t.base, p.v, world.wd)])
               /\ UNCHANGED ufLog
          ELSE /\ ufLog' = Append(ufLog, RaceLogged(i, t.file, t.base, <<>>, ImageType, None))
               /\ RaceMoves(i, [t EXCEPT !.at = "done"])
    /\ UNCHANGED svc

\* uploadFile, lines 284-376: the rest of the request, the load of
\* s.uploadResType for the URL, and the request
RaceSend(i) ==
    /\ pc = "race"
    /\ call.th[i].at = "send"
    /\ \E t \in {call.th[i]}, rt \in LoadSet(i, "uploadResType", FALSE),
          now \in Epoch, http \in RaceOutcomes :
       \E r \in {uploadNamed(StoreResType(svc, rt.v), world.tree, world.wd, t.file, "nil",
                             FALSE, t.id, FormatInt(now), http)} :
          /\ ufLog' = Append(ufLog, RaceLogged(i, t.file, t.base, t.prepend, rt.v, r))
          /\ RaceMoves(i, [t EXCEPT !.at = RaceAfter(t, r)])
    /\ UNCHANGED svc

\* Two callers upload on the same Service, each at its own pace.
NextRace ==
    \E i \in {1, 2} :
        \/ RaceEnter(i)
        \/ RaceStoreBase(i)
        \/ RaceStorePrepend(i)
        \/ RaceStat(i)
        \/ RaceStoreDir(i)
        \/ RaceWalk(i)
        \/ RaceLoadBase(i)
        \/ RaceLoadPrepend(i)
        \/ RaceSend(i)

SpecRace == InitRace /\ [][NextRace]_vars

---------------------------------------------------------------------------
(* Response handling on its own: handleHTTPResponse and do on every status *)
(* and body.                                                               *)

RespStatuses == {StatusOK, 201, 404, 500}

\* no response (the transport failed), or a response
Resps == {None} \cup {Response(c, b) : c \in RespStatuses, b \in Bodies}

InitResp ==
    /\ input \in [fn : {"handleHTTPResponse", "do"}, resp : Resps]
    /\ output = None
    /\ MachineUnused

CallHandleHTTPResponse ==
    /\ input.fn = "handleHTTPResponse"
    /\ output = None
    /\ output' = handleHTTPResponse(input.resp)
    /\ UNCHANGED <<input, machine>>

CallDo ==
    /\ input.fn = "do"
    /\ output = None
    /\ output' = do(IF input.resp = None THEN NetError ELSE input.resp)
    /\ UNCHANGED <<input, machine>>

NextResp == CallHandleHTTPResponse \/ CallDo

SpecResp == InitResp /\ [][NextResp]_vars

---------------------------------------------------------------------------
(* The claims.                                                             *)

\* the connection string of the call, parsed
ParsedInput == Parse(input.uri)

\* the string parses, its scheme is "cloudinary" and it has a password
Accepted(u) == ~u.err /\ u.Scheme = S_cloudinary /\ u.User.set /\ u.User.passwordSet

\* d is the Service for the parsed connection string u
ServiceFor(d, u) ==
    /\ d.cloudName = u.Host
    /\ d.apiKey = u.User.username
    /\ d.apiSecret = u.User.password

\* the text holds a '%' that two hexadecimal digits do not follow
BrokenEscape(host) ==
    \E i \in 1..Len(host) :
        /\ host[i] = "%"
        /\ \/ i + 2 > Len(host)
           \/ ~IsHex(host[i + 1])
           \/ ~IsHex(host[i + 2])

\* C1, as stated: each Dial returns a Service exactly when the connection
\* string parses, has the scheme "cloudinary" and has a password; the
\* Service then holds the host as cloud name, the user name as key and the
\* password as secret.
C1_DialExactlyWhenAccepted ==
    output # None =>
        \A d \in {output.service, output.older} :
            /\ ~d.err <=> Accepted(ParsedInput)
            /\ ~d.err => ServiceFor(d, ParsedInput)

\* C1, amended: Dial of service.go returns a Service exactly when the
\* connection string parses, has the scheme "cloudinary" and has a password.
\* Dial of the older client returns one exactly when, in addition, the host
\* holds no '%' that two hexadecimal digits do not follow (such a host makes
\* the parse of the upload URL built from it fail). The Service holds the
\* host as cloud name, the user name as key and the password as secret.
C1_DialAccepts ==
    output # None =>
        /\ ~output.service.err <=> Accepted(ParsedInput)
        /\ ~output.service.err => ServiceFor(output.service, ParsedInput)
        /\ ~output.older.err <=> Accepted(ParsedInput) /\ ~BrokenEscape(ParsedInput.Host)
        /\ ~output.older.err => ServiceFor(output.older, ParsedInput)

\* Both clients have dialled cloudinary://k:s@c.
C1_Dialled ==
    /\ output # None
    /\ input.uri = S_cloudinary \o <<":", "/", "/", "k", ":", "s", "@", "c">>
    /\ ~output.service.err
    /\ ~output.older.err
    /\ output.older.cloudName = <<"c">>
    /\ output.older.apiKey = <<"k">>
    /\ output.older.apiSecret = <<"s">>

\* the keys of the signed map in increasing order
Increasing(S) ==
    CHOOSE ks \in Orders(S) : \A i, j \in DOMAIN ks : i < j => StrLess(ks[i], ks[j])

RECURSIVE JoinFrom(_, _, _)
\* key=value of the keys from the i-th on, with '&' between two pairs
JoinFrom(ks, m, i) ==
    IF i > Len(ks) THEN <<>>
    ELSE IF i = Len(ks) THEN ks[i] \o <<"=">> \o m[ks[i]]
    ELSE ks[i] \o <<"=">> \o m[ks[i]] \o <<"&">> \o JoinFrom(ks, m, i + 1)

\* the parameters of the call with the timestamp that the request carries
SignedParams ==
    [k \in SignedKeys(input.params) |->
        IF k = S_timestamp THEN output.request.fields[2][2] ELSE input.params[k]]

\* C2: the signature that newRequest writes is the digest of the pairs
\* key=value of the parameters and the timestamp, in increasing order of the
\* keys and joined by '&', followed by the secret; it is the same for every
\* order in which the map is iterated.
C2_SignatureOfSortedParams ==
    output # None =>
        output.request.fields[3] =
            <<S_signature,
              Sha1Hex(JoinFrom(Increasing(SignedKeys(input.params)), SignedParams, 1)
                      \o input.apiSecret)>>

\* A request is signed whose map of three keys was iterated in another
\* order than the sorted one.
C2_SignedOutOfOrder ==
    /\ output # None
    /\ Len(output.order) >= 3
    /\ output.order # Increasing(SignedKeys(input.params))
    /\ output.request.fields[3][1] = S_signature

\* C3, its two examples: ("/tmp/images/logo.png", "", "") gives
\* "images/logo" and ("/tmp/css/default.css", "/tmp/", "new/") gives
\* "new/css/default", whatever the working directory is.
C3_Examples ==
    output # None =>
        /\ (input.path = S_logo /\ input.basePath = <<>> /\ input.prependPath = <<>>)
              => output = [panic |-> FALSE, s |-> <<"i", "m", "a", "g", "e", "s", "/", "l", "o", "g", "o">>]
        /\ (input.path = S_css /\ input.basePath = <<"/", "t", "m", "p", "/">>
              /\ input.prependPath = <<"n", "e", "w", "/">>)
              => output = [panic |-> FALSE,
                           s |-> <<"n", "e", "w", "/", "c", "s", "s", "/", "d", "e", "f", "a", "u", "l", "t">>]

\* the entry of the file system at the path p, if there is one
EntryAt(p) == world.tree[Join(world.wd, p)]

Exists(p) == p # <<>> /\ Join(world.wd, p) \in DOMAIN world.tree

\* a regular file without a byte is at p
ZeroBytes(p) == Exists(p) /\ EntryAt(p).kind = "file" /\ EntryAt(p).size = 0

\* C4: uploadFile on a file of zero bytes returns the path and no error and
\* hands no request to the HTTP client, and the call of Upload reports no
\* other outcome for that file.
C4_EmptyFileIsNoOp ==
    \A i \in DOMAIN ufLog :
        ZeroBytes(ufLog[i].fullPath) =>
            /\ ufLog[i].res = UploadResult(ufLog[i].fullPath, "nil", <<>>)
            /\ \A j \in DOMAIN ufLog : j # i => ufLog[j].fullPath # ufLog[i].fullPath

\* A walk that sends its requests has reached an empty file after two other
\* files.
C4_EmptyFileReached ==
    /\ ~svc.simulate
    /\ Len(ufLog) >= 3
    /\ ZeroBytes(ufLog[3].fullPath)
    /\ ufLog[1].res.reqs # <<>>

\* Delete has returned from a call for an identifier that the keep pattern
\* matches
KeptCall ==
    /\ pc = "done"
    /\ call.op = "Delete"
    /\ svc.keepFilesPattern.set
    /\ MatchString(svc.keepFilesPattern, call.prepend \o call.publicID)

\* C5: when a keep pattern is set and matches prepend+publicID, Delete
\* returns no error, hands no request to the HTTP client and computes no
\* signature: the match is the only step it takes. This holds for every
\* resource type, with and without simulate mode.
C5_KeptIsNotDeleted ==
    KeptCall => ret = CallResult("nil", FALSE, <<>>, <<"match">>)

\* A raw resource that the pattern ^p/ keeps was to be deleted for real.
C5_KeptRaw ==
    /\ KeptCall
    /\ ~svc.simulate
    /\ call.rtype = RawType
    /\ svc.keepFilesPattern.anchored
    /\ ret.err = "nil"

\* Upload has returned from a call that uploads one file
FileUploadDone ==
    /\ pc = "done"
    /\ call.op = "Upload"
    /\ call.data # "nil" \/ (Exists(call.path) /\ EntryAt(call.path).kind = "file")

\* the error that reading the file of the call gives
ReadError ==
    IF call.data = "badreader" THEN "read"
    ELSE IF call.data = "nil" /\ EntryAt(call.path).mode = "noread" THEN "open"
    ELSE "nil"

FilesBelow(p) ==
    {q \in DOMAIN world.tree :
        /\ world.tree[q].kind = "file"
        /\ HasPrefix(q, Join(world.wd, p) \o <<PathSeparator>>)}

\* C7, as stated: an Upload of a directory that returns no error has handed
\* each regular file below the directory to uploadFile exactly once, and no
\* directory.
C7_EveryFileUploadedOnce ==
    (/\ pc = "done" /\ call.op = "Upload" /\ call.data = "nil"
     /\ Exists(call.path) /\ EntryAt(call.path).kind = "dir"
     /\ ~ret.panic /\ ret.err = "nil") =>
        /\ \A q \in FilesBelow(call.path) :
              Cardinality({i \in DOMAIN ufLog : Join(world.wd, ufLog[i].fullPath) = q}) = 1
        /\ \A i \in DOMAIN ufLog : EntryAt(ufLog[i].fullPath).kind = "file"

\* the i-th file of the walk was sent
Sent(i) == ufLog[i].res.reqs # <<>>

\* the public identifier that the request for the i-th file of the walk carries
PublicIDOf(i) == ufLog[i].res.reqs[1].fields[1][2]

\* the path without the extension of its last element
Stem(p) == Take(p, Len(p) - Len(Ext(p)))

C9_SuccessOnlyIfOk ==
    (/\ pc = "done" /\ call.op \in {"Delete", "UploadDestroy"}
     /\ ret.reqs # <<>> /\ ~call.http.neterr /\ call.http.StatusCode = StatusOK
     /\ ~ret.panic /\ ret.err = "nil") =>
        /\ call.http.body.t = "object"
        /\ "result" \in DOMAIN call.http.body.f
        /\ call.http.body.f["result"] = JString(S_ok)

\* C10, as stated: handleHTTPResponse never panics; it returns an error for
\* a status other than 200 and for a body that is not a JSON object, and the
\* object otherwise.
C10_NeverPanics ==
    (output # None /\ input.fn = "handleHTTPResponse" /\ input.resp # None) =>
        /\ ~output.panic
        /\ (input.resp.StatusCode # StatusOK \/ input.resp.body.t # "object") => output.err
        /\ (input.resp.StatusCode = StatusOK /\ input.resp.body.t = "object")
              => (~output.err /\ output.m = input.resp.body)

\* the requests that the call just made has handed to the HTTP client
LastRequests ==
    IF pc # "done" \/ call.op \notin {"Upload", "Delete", "Rename"} THEN {}
    ELSE IF call.op = "Upload"
    THEN {ufLog[i].res.reqs[1] : i \in {j \in DOMAIN ufLog : ufLog[j].res.reqs # <<>>}}
    ELSE {ret.reqs[i] : i \in DOMAIN ret.reqs}

\* the name of a resource type in a URL
WireName(rtype) ==
    IF rtype = VideoType THEN <<"v", "i", "d", "e", "o">>
    ELSE IF rtype = RawType THEN <<"r", "a", "w">>
    ELSE <<"i", "m", "a", "g", "e">>

\* the last segment of the URL of an operation
OpName(op) ==
    IF op = "Upload" THEN <<"u", "p", "l", "o", "a", "d">>
    ELSE IF op = "Delete" THEN <<"d", "e", "s", "t", "r", "o", "y">>
    ELSE <<"r", "e", "n", "a", "m", "e">>

\* {base}/{cloudName}/{resourceType}/{operation} of the call just made
Endpoint ==
    <<"h", "t", "t", "p", "s", ":", "/", "/", "a", "p", "i", ".", "c", "l", "o", "u", "d", "i", "n",
      "a", "r", "y", ".", "c", "o", "m", "/", "v", "1", "_", "1", "/">>
    \o svc.cloudName \o <<"/">> \o WireName(call.rtype) \o <<"/">> \o OpName(call.op)

\* C11, as stated: every request of Upload, Delete and Rename is a POST to
\* {base}/{cloudName}/{resourceType}/{upload|destroy|rename} (with or without
\* a closing slash), with the cloud name of the Service and the name of the
\* requested resource type: image, video or raw, and image for pdf.
C11_PostedToEndpoint ==
    \A r \in LastRequests :
        /\ r.method = <<"P", "O", "S", "T">>
        /\ r.uri \in {Endpoint, Endpoint \o <<"/">>}

\* the base directory that the call of the caller i gives its files: the
\* path of a directory upload, and none for the upload of a single file
OwnBase(i) ==
    IF Stat(world.tree, world.wd, input.plan[i].path).kind = "dir"
    THEN input.plan[i].path ELSE <<>>

\* a Service that holds the arguments of the call of the caller i
OwnService(i) ==
    [svc EXCEPT !.uploadResType = input.plan[i].rtype,
                !.basePathDir = OwnBase(i),
                !.prependPath = input.plan[i].prepend]

\* the k-th call of uploadFile has used the arguments of the call that made
\* it, and has sent the request that a Service of its own would have sent
UsedOwnValues(k) ==
    /\ ufLog[k].res # None
    /\ ufLog[k].rtype = input.plan[ufLog[k].who].rtype
    /\ ufLog[k].base = OwnBase(ufLog[k].who)
    /\ ufLog[k].prepend = input.plan[ufLog[k].who].prepend
    /\ ufLog[k].res.reqs =
          uploadFile(OwnService(ufLog[k].who), world.tree, world.wd, ufLog[k].fullPath,
                     "nil", FALSE, 9, NetError).reqs

\* C12: Upload keeps its arguments in the Service, so two calls on one
\* Service that overlap in time race (the state C12_UploadedWithOtherValues
\* is reached), whereas as long as the calls do not overlap every file is
\* uploaded with the resource type, the base directory and the prepend path
\* of its own call.
C12_ApartCallsUseOwnValues ==
    (pc = "race" /\ ~call.overlapped) => \A k \in DOMAIN ufLog : UsedOwnValues(k)

\* A file of one call has been sent with the resource type, the base
\* directory and the prepend path of the other call, each of them different
\* from its own.
C12_UploadedWithOtherValues ==
    /\ pc = "race"
    /\ \E k \in DOMAIN ufLog :
          /\ ufLog[k].res # None
          /\ ufLog[k].res.reqs # <<>>
          /\ ufLog[k].rtype = input.plan[Other(ufLog[k].who)].rtype
          /\ ufLog[k].rtype # input.plan[ufLog[k].who].rtype
          /\ ufLog[k].base = OwnBase(Other(ufLog[k].who))
          /\ ufLog[k].base # OwnBase(ufLog[k].who)
          /\ ufLog[k].prepend = input.plan[Other(ufLog[k].who)].prepend
          /\ ufLog[k].prepend # input.plan[ufLog[k].who].prepend

\* the value that the request carries for the key k
SentValue(r, k) == r.fields[CHOOSE i \in DOMAIN r.fields : r.fields[i][1] = k][2]

\* the keys that the request carries
SentKeys(r) == {r.fields[i][1] : i \in DOMAIN r.fields}

\* the keys that the claim lists as signed for the call just made
SignedKeysOf ==
    IF call.op = "Upload"
    THEN {S_timestamp} \cup (IF call.randomPublicID THEN {} ELSE {S_public_id})
    ELSE IF call.op = "Delete" THEN {S_public_id, S_timestamp}
    ELSE {S_from_public_id, S_timestamp, S_to_public_id}

\* C13, as stated: the signature of every request of Upload, Delete and
\* Rename is the digest of key=value for exactly the signed keys of the
\* operation (never file, api_key or signature), each with the value that
\* the request carries for that key, the timestamp included, followed by the
\* secret; for every prepend path.
C13_SignedAsSent ==
    \A r \in LastRequests :
        /\ SignedKeysOf \cup {S_api_key, S_signature} = SentKeys(r)
        /\ SentValue(r, S_signature) =
              Sha1Hex(JoinFrom(Increasing(SignedKeysOf),
                               [k \in SignedKeysOf |-> SentValue(r, k)], 1)
                      \o svc.apiSecret)

=============================================================================
